---- MODULE Spec2Model ----
\* Model of demo.py: the naive ("original") and the batched ("optimized")
\* MongoDB write strategies, the statistics comparison, and the main program.
EXTENDS Integers, Sequences, FiniteSets, TLC

\* ---------------------------------------------------------------- bounds
MaxRecords == 3
MaxBatchSize == 3
MaxCallRecords == 2
MaxEarlierRuns == 2

\* ------------------------------------------------------ program constants
FLIGHT_COLLECTION == "flightcollection"
POSITION_COLLECTION == "positioncollection"
SURFACE_COLLECTION == "surfacecollection"

\* The destinations in the insertion order of the operations dict, which is
\* the flush order of the naive writer.
CollectionOrder == <<FLIGHT_COLLECTION, POSITION_COLLECTION, SURFACE_COLLECTION>>
CollectionNames == {FLIGHT_COLLECTION, POSITION_COLLECTION, SURFACE_COLLECTION}

\* ------------------------------------------------------------ record model
\* A data set is a dict flight_id -> report.  Dict keys are distinct, so the
\* i-th inserted key is identified with i; data[i] is the report's
\* "posmsgtype" value, NoField standing for a report without that key.
NoField == "<missing>"
GeneratedTypes == {"position", "surface"}
AnyTypes == {"position", "surface", "other", NoField}
IdSpace == 1..MaxRecords

RECURSIVE SeqsUpTo(_, _)
SeqsUpTo(S, n) ==
    IF n = 0 THEN {<< >>}
    ELSE LET shorter == SeqsUpTo(S, n - 1)
         IN  shorter \cup {Append(s, x) : s \in {t \in shorter : Len(t) = n - 1}, x \in S}

\* generate_synthetic_data: every report carries posmsgtype in {position, surface}
generate_synthetic_data == SeqsUpTo(GeneratedTypes, MaxRecords)

\* ------------------------------------------------------------------ store
\* A collection is a bag of documents, kept as the number of documents per
\* flight id.
EmptyCollection == [i \in IdSpace |-> 0]
EmptyDb == [c \in CollectionNames |-> EmptyCollection]

CollectionSize(coll) ==
    LET RECURSIVE Sum(_)
        Sum(i) == IF i = 0 THEN 0 ELSE coll[i] + Sum(i - 1)
    IN  Sum(MaxRecords)

\* Mutant: the latest-state operation is a plain insert.
UpdateOneAsInsert(id) == [op |-> "InsertOne", id |-> id]

UpdateOne(id) == [op |-> "UpdateOne", id |-> id]
InsertOne(id) == [op |-> "InsertOne", id |-> id]

\* One operation applied by the store: an upsert keyed by flightid inserts a
\* document only when none matches; an insert always adds a document.
ApplyOp(coll, o) ==
    IF o.op = "UpdateOne"
    THEN [coll EXCEPT ![o.id] = IF @ = 0 THEN 1 ELSE @]
    ELSE [coll EXCEPT ![o.id] = @ + 1]

\* The operations of ops whose index is in S, applied (unordered execution:
\* a failing call may have applied any part of the batch).
RECURSIVE ApplyOps(_, _, _, _)
ApplyOps(coll, ops, S, i) ==
    IF i > Len(ops) THEN coll
    ELSE ApplyOps(IF i \in S THEN ApplyOp(coll, ops[i]) ELSE coll, ops, S, i + 1)

bulk_write(coll, ops) == ApplyOps(coll, ops, 1..Len(ops), 1)
insert_many(coll, docs) ==
    ApplyOps(coll, [i \in 1..Len(docs) |-> InsertOne(docs[i])], 1..Len(docs), 1)
PartialWrite(coll, ops, S) == ApplyOps(coll, ops, S, 1)

\* Mutant: the latest-state collection is not dropped.
DropAllButFlight(d) == [EmptyDb EXCEPT ![FLIGHT_COLLECTION] = d[FLIGHT_COLLECTION]]

\* drop() of the three collections
DropAll(d) == EmptyDb

\* ------------------------------------------------------------- statistics
\* A statistics key is a string, kept as its sequence of tokens: the
\* collection name alone, or the name, "_batch_" and the decimal digits of the
\* batch number.
EmptyStats == [k \in {} |-> 0]

DigitStr(d) ==
    CASE d = 0 -> "0" [] d = 1 -> "1" [] d = 2 -> "2" [] d = 3 -> "3" [] d = 4 -> "4"
      [] d = 5 -> "5" [] d = 6 -> "6" [] d = 7 -> "7" [] d = 8 -> "8" [] OTHER -> "9"

RECURSIVE Decimal(_)
Decimal(n) == IF n < 10 THEN <<DigitStr(n)>> ELSE Append(Decimal(n \div 10), DigitStr(n % 10))

OriginalKey(collection_name) == <<collection_name>>
OptimizedKey(collection_name, batch) == <<collection_name, "_batch_">> \o Decimal(batch)

PutStat(stats, key, n) ==
    [k \in DOMAIN stats \cup {key} |-> IF k = key THEN n ELSE stats[k]]

\* ------------------------------------------------------------------ state
VARIABLES
    pc,                  \* position of the main program (or "CALLER")
    data,                \* the record set handed to the writers
    batch_size,          \* batched writer: batch_size argument
    use_multithreading,  \* batched writer: use_multithreading argument
    db,                  \* the three collections of the store
    npc,                 \* naive writer: position
    operations,          \* naive writer: the three operation lists
    nidx,                \* naive writer: position in operations.items()
    n_stats,             \* naive writer: write_stats
    opc,                 \* batched writer: position
    total_batches,       \* batched writer: total_batches
    batch_num,           \* batched writer: loop variable batch_num
    buckets,             \* batched writer: updates_to_perform, positions_to_insert, surfaces_to_insert
    threads,             \* batched writer: the list threads (indices into thr)
    thr,                 \* every Thread object created by the running call
    cursor,              \* batched writer: position in the start loop, join loop or sequential writes
    write_stats,         \* batched writer: write_stats
    original_stats,      \* main program: original_stats
    optimized_stats,     \* main program: optimized_stats
    rows,                \* compare_results: the rows handed to tabulate
    flush_log,           \* history: flush calls issued by the running call, per key
    failed,              \* history: keys whose flush call failed in the running call
    chunks,              \* history: the data_batch of every batch processed
    runs                 \* history: the writer calls made so far

vars == <<pc, data, batch_size, use_multithreading, db, npc, operations, nidx, n_stats,
          opc, total_batches, batch_num, buckets, threads, thr, cursor, write_stats,
          original_stats, optimized_stats, rows, flush_log, failed, chunks, runs>>

naiveVars == <<npc, operations, nidx, n_stats>>
optVars == <<opc, total_batches, batch_num, buckets, threads, thr, cursor, write_stats>>
mainVars == <<pc, original_stats, optimized_stats, rows>>
argVars == <<data, batch_size, use_multithreading>>
histVars == <<flush_log, failed, chunks, runs>>

Unset == [set |-> FALSE, stats |-> EmptyStats]
Assigned(stats) == [set |-> TRUE, stats |-> stats]

EmptyBuckets == [c \in CollectionNames |-> << >>]

LogFlush(log, key) ==
    [k \in DOMAIN log \cup {key} |-> IF k \in DOMAIN log THEN (IF k = key THEN log[k] + 1 ELSE log[k]) ELSE 1]

\* ----------------------------------------------------------- naive writer
\* Mutant: "if"/"if not position" written as two independent tests, so that
\* a position report is appended to both insert lists.
RECURSIVE OriginalScanBothLists(_, _, _)
OriginalScanBothLists(d, i, ops) ==
    IF i > Len(d) THEN [raised |-> FALSE, operations |-> ops]
    ELSE LET upd == [ops EXCEPT ![FLIGHT_COLLECTION] = Append(@, UpdateOne(i))]
         IN  IF d[i] = NoField THEN [raised |-> TRUE, operations |-> upd]
             ELSE IF d[i] = "position"
                  THEN OriginalScanBothLists(d, i + 1,
                          [upd EXCEPT ![POSITION_COLLECTION] = Append(@, InsertOne(i)),
                                      ![SURFACE_COLLECTION] = Append(@, InsertOne(i))])
                  ELSE OriginalScanBothLists(d, i + 1,
                          [upd EXCEPT ![SURFACE_COLLECTION] = Append(@, InsertOne(i))])

\* The scan of lines 69-79 over data[i..]: the operation lists, or the
\* KeyError of a report without "posmsgtype".
RECURSIVE OriginalScan(_, _, _)
OriginalScan(d, i, ops) ==
    IF i > Len(d) THEN [raised |-> FALSE, operations |-> ops]
    ELSE LET upd == [ops EXCEPT ![FLIGHT_COLLECTION] = Append(@, UpdateOne(i))]
         IN  IF d[i] = NoField THEN [raised |-> TRUE, operations |-> upd]
             ELSE IF d[i] = "position"
                  THEN OriginalScan(d, i + 1, [upd EXCEPT ![POSITION_COLLECTION] = Append(@, InsertOne(i))])
                  ELSE OriginalScan(d, i + 1, [upd EXCEPT ![SURFACE_COLLECTION] = Append(@, InsertOne(i))])

\* original_write_position_mongo_database is entered
NaiveEnter ==
    /\ npc' = "scan"
    /\ operations' = EmptyBuckets
    /\ nidx' = 1
    /\ n_stats' = EmptyStats
    /\ flush_log' = EmptyStats
    /\ failed' = {}
    /\ chunks' = << >>

NaiveScan ==
    /\ npc = "scan"
    /\ LET r == OriginalScan(data, 1, EmptyBuckets)
       IN  /\ ~r.raised
           /\ operations' = r.operations
           /\ npc' = "flush"
    /\ UNCHANGED <<nidx, n_stats, db, optVars, mainVars, argVars, histVars>>

\* Mutant: the lists are flushed as they grow, so the latest-state list has
\* reached the store when the KeyError is raised.
NaiveScanRaiseFlushes ==
    /\ npc = "scan"
    /\ LET r == OriginalScan(data, 1, EmptyBuckets)
       IN  /\ r.raised
           /\ db' = [db EXCEPT ![FLIGHT_COLLECTION] = bulk_write(@, r.operations[FLIGHT_COLLECTION])]
    /\ flush_log' = LogFlush(flush_log, OriginalKey(FLIGHT_COLLECTION))
    /\ npc' = "raised"
    /\ UNCHANGED <<operations, nidx, n_stats, optVars, mainVars, argVars, failed, chunks, runs>>

\* a report without "posmsgtype": line 76 raises KeyError out of the writer
NaiveScanRaise ==
    /\ npc = "scan"
    /\ OriginalScan(data, 1, EmptyBuckets).raised
    /\ npc' = "raised"
    /\ UNCHANGED <<operations, nidx, n_stats, db, optVars, mainVars, argVars, histVars>>

\* Mutant: the "if ops:" test is missing, an empty list is flushed and
\* recorded like any other.
NaiveFlushEmpty ==
    /\ npc = "flush"
    /\ nidx <= Len(CollectionOrder)
    /\ LET c == CollectionOrder[nidx]
       IN  /\ operations[c] = << >>
           /\ n_stats' = PutStat(n_stats, OriginalKey(c), 0)
           /\ flush_log' = LogFlush(flush_log, OriginalKey(c))
    /\ nidx' = nidx + 1
    /\ UNCHANGED <<npc, operations, db, optVars, mainVars, argVars, failed, chunks, runs>>

\* "if ops:" is false: nothing is flushed and no entry is recorded
NaiveSkipEmpty ==
    /\ npc = "flush"
    /\ nidx <= Len(CollectionOrder)
    /\ operations[CollectionOrder[nidx]] = << >>
    /\ nidx' = nidx + 1
    /\ UNCHANGED <<npc, operations, n_stats, db, optVars, mainVars, argVars, histVars>>

NaiveFlushOk ==
    /\ npc = "flush"
    /\ nidx <= Len(CollectionOrder)
    /\ LET c == CollectionOrder[nidx]
           ops == operations[c]
       IN  /\ ops # << >>
           /\ db' = [db EXCEPT ![c] = bulk_write(@, ops)]
           /\ n_stats' = PutStat(n_stats, OriginalKey(c), Len(ops))
           /\ flush_log' = LogFlush(flush_log, OriginalKey(c))
    /\ nidx' = nidx + 1
    /\ UNCHANGED <<npc, operations, optVars, mainVars, argVars, failed, chunks, runs>>

\* Mutant: the naive writer swallows the exception and goes on to the next
\* collection.
NaiveFlushFailSwallowed ==
    /\ npc = "flush"
    /\ nidx <= Len(CollectionOrder)
    /\ LET c == CollectionOrder[nidx]
           ops == operations[c]
       IN  /\ ops # << >>
           /\ \E S \in SUBSET (1..Len(ops)) : db' = [db EXCEPT ![c] = PartialWrite(@, ops, S)]
           /\ flush_log' = LogFlush(flush_log, OriginalKey(c))
           /\ failed' = failed \cup {OriginalKey(c)}
    /\ nidx' = nidx + 1
    /\ UNCHANGED <<npc, operations, n_stats, optVars, mainVars, argVars, chunks, runs>>

\* bulk_write raises: the exception is re-raised out of the writer
NaiveFlushFail ==
    /\ npc = "flush"
    /\ nidx <= Len(CollectionOrder)
    /\ LET c == CollectionOrder[nidx]
           ops == operations[c]
       IN  /\ ops # << >>
           /\ \E S \in SUBSET (1..Len(ops)) : db' = [db EXCEPT ![c] = PartialWrite(@, ops, S)]
           /\ flush_log' = LogFlush(flush_log, OriginalKey(c))
           /\ failed' = failed \cup {OriginalKey(c)}
    /\ npc' = "raised"
    /\ UNCHANGED <<operations, nidx, n_stats, optVars, mainVars, argVars, chunks, runs>>

NaiveReturn ==
    /\ npc = "flush"
    /\ nidx > Len(CollectionOrder)
    /\ npc' = "returned"
    /\ UNCHANGED <<operations, nidx, n_stats, db, optVars, mainVars, argVars, histVars>>

\* --------------------------------------------------------- batched writer
\* Python's a // b (b # 0)
FloorDiv(a, b) == IF b > 0 THEN a \div b ELSE (0 - a) \div (0 - b)

Min(a, b) == IF a < b THEN a ELSE b

\* Python's items[start:stop], as the indices (1-based) it selects
PySlice(n, start, stop) ==
    LET Norm(x) == IF x < 0 THEN (IF x + n < 0 THEN 0 ELSE x + n) ELSE Min(x, n)
        lo == Norm(start)
        hi == Norm(stop)
    IN  [j \in 1..(IF hi > lo THEN hi - lo ELSE 0) |-> lo + j]

\* Mutant: the number of batches is rounded down.
TotalBatchesRoundedDown(n, size) == FloorDiv(n, size)

TotalBatches(n, size) == FloorDiv(n + size - 1, size)

\* data_batch of lines 112-114: the flight ids of the batch, in order
DataBatch(n, size, num) ==
    LET batch_start == num * size
        batch_end == Min(batch_start + size, n)
    IN  PySlice(n, batch_start, batch_end)

\* Mutant: a posmsgtype that is neither "position" nor "surface" is rejected.
RECURSIVE OptimizedScanRejectsOther(_, _, _, _)
OptimizedScanRejectsOther(d, ids, i, b) ==
    IF i > Len(ids) THEN [raised |-> FALSE, buckets |-> b]
    ELSE LET upd == [b EXCEPT ![FLIGHT_COLLECTION] = Append(@, UpdateOne(ids[i]))]
         IN  IF d[ids[i]] \notin {"position", "surface"} THEN [raised |-> TRUE, buckets |-> upd]
             ELSE IF d[ids[i]] = "position"
                  THEN OptimizedScanRejectsOther(d, ids, i + 1,
                          [upd EXCEPT ![POSITION_COLLECTION] = Append(@, ids[i])])
                  ELSE OptimizedScanRejectsOther(d, ids, i + 1,
                          [upd EXCEPT ![SURFACE_COLLECTION] = Append(@, ids[i])])

\* The loop of lines 120-132 over ids[i..]: the three lists, or the KeyError
\* of a report without "posmsgtype".
RECURSIVE OptimizedScan(_, _, _, _)
OptimizedScan(d, ids, i, b) ==
    IF i > Len(ids) THEN [raised |-> FALSE, buckets |-> b]
    ELSE LET upd == [b EXCEPT ![FLIGHT_COLLECTION] = Append(@, UpdateOne(ids[i]))]
         IN  IF d[ids[i]] = NoField THEN [raised |-> TRUE, buckets |-> upd]
             ELSE IF d[ids[i]] = "position"
                  THEN OptimizedScan(d, ids, i + 1, [upd EXCEPT ![POSITION_COLLECTION] = Append(@, ids[i])])
                  ELSE OptimizedScan(d, ids, i + 1, [upd EXCEPT ![SURFACE_COLLECTION] = Append(@, ids[i])])

\* Thread(target=perform_write, args=(collection_name, operations_list, is_update))
NewThread(collection_name, operations_list, is_update, num) ==
    [collection_name |-> collection_name, operations_list |-> operations_list,
     is_update |-> is_update, created_in |-> num, st |-> "created"]

\* Mutant: no Thread is created for the surface list.
RECURSIVE NewThreadsNoSurface(_, _, _)
NewThreadsNoSurface(b, num, i) ==
    IF i > Len(CollectionOrder) THEN << >>
    ELSE LET c == CollectionOrder[i]
         IN  (IF b[c] # << >> /\ c # SURFACE_COLLECTION
              THEN <<NewThread(c, b[c], c = FLIGHT_COLLECTION, num)>> ELSE << >>)
             \o NewThreadsNoSurface(b, num, i + 1)

\* Lines 156-180 with use_multithreading: one Thread per non-empty list, in
\* the order flight, position, surface.
RECURSIVE NewThreads(_, _, _)
NewThreads(b, num, i) ==
    IF i > Len(CollectionOrder) THEN << >>
    ELSE LET c == CollectionOrder[i]
         IN  (IF b[c] # << >> THEN <<NewThread(c, b[c], c = FLIGHT_COLLECTION, num)>> ELSE << >>)
             \o NewThreads(b, num, i + 1)

\* The store call of perform_write
StoreWrite(coll, operations_list, is_update) ==
    IF is_update THEN bulk_write(coll, operations_list) ELSE insert_many(coll, operations_list)

StorePartial(coll, operations_list, is_update, S) ==
    IF is_update THEN PartialWrite(coll, operations_list, S)
    ELSE PartialWrite(coll, [i \in 1..Len(operations_list) |-> InsertOne(operations_list[i])], S)

\* optimized_write_position_mongo_database is entered
OptEnter ==
    /\ opc' = "call"
    /\ total_batches' = 0
    /\ batch_num' = 0
    /\ buckets' = EmptyBuckets
    /\ threads' = << >>
    /\ thr' = << >>
    /\ cursor' = 1
    /\ write_stats' = EmptyStats
    /\ flush_log' = EmptyStats
    /\ failed' = {}
    /\ chunks' = << >>

\* lines 106-109
OptBegin ==
    /\ opc = "call"
    /\ batch_size # 0
    /\ total_batches' = TotalBatches(Len(data), batch_size)
    /\ opc' = "loop"
    /\ UNCHANGED <<batch_num, buckets, threads, thr, cursor, write_stats, db, naiveVars,
                   mainVars, argVars, histVars>>

\* line 107 divides by batch_size: ZeroDivisionError
OptBeginRaise ==
    /\ opc = "call"
    /\ batch_size = 0
    /\ opc' = "raised"
    /\ UNCHANGED <<total_batches, batch_num, buckets, threads, thr, cursor, write_stats, db,
                   naiveVars, mainVars, argVars, histVars>>

\* One iteration is entered: lines 112-132, then the threads are created
\* (lines 156-180) or the sequential writes begin.
OptBatch ==
    /\ opc = "loop"
    /\ batch_num < total_batches
    /\ LET ids == DataBatch(Len(data), batch_size, batch_num)
           r == OptimizedScan(data, ids, 1, EmptyBuckets)
       IN  /\ ~r.raised
           /\ buckets' = r.buckets
           /\ chunks' = Append(chunks, ids)
           /\ IF use_multithreading
              THEN LET new == NewThreads(r.buckets, batch_num, 1)
                   IN  /\ thr' = thr \o new
                       /\ threads' = [j \in 1..Len(new) |-> Len(thr) + j]
                       /\ opc' = "start"
              ELSE /\ UNCHANGED <<thr, threads>>
                   /\ opc' = "sequential"
    /\ cursor' = 1
    /\ UNCHANGED <<total_batches, batch_num, write_stats, db, naiveVars, mainVars, argVars,
                   flush_log, failed, runs>>

\* Mutant: a batch holding a report without "posmsgtype" is skipped.
OptBatchRaiseSkips ==
    /\ opc = "loop"
    /\ batch_num < total_batches
    /\ OptimizedScan(data, DataBatch(Len(data), batch_size, batch_num), 1, EmptyBuckets).raised
    /\ batch_num' = batch_num + 1
    /\ UNCHANGED <<opc, total_batches, buckets, threads, thr, cursor, write_stats, db,
                   naiveVars, mainVars, argVars, histVars>>

\* a report without "posmsgtype": line 129 raises KeyError out of the writer
OptBatchRaise ==
    /\ opc = "loop"
    /\ batch_num < total_batches
    /\ OptimizedScan(data, DataBatch(Len(data), batch_size, batch_num), 1, EmptyBuckets).raised
    /\ opc' = "raised"
    /\ UNCHANGED <<total_batches, batch_num, buckets, threads, thr, cursor, write_stats, db,
                   naiveVars, mainVars, argVars, histVars>>

\* range(total_batches) is exhausted: return write_stats
OptReturn ==
    /\ opc = "loop"
    /\ batch_num >= total_batches
    /\ opc' = "returned"
    /\ UNCHANGED <<total_batches, batch_num, buckets, threads, thr, cursor, write_stats, db,
                   naiveVars, mainVars, argVars, histVars>>

\* Mutant: every task records under the key of the latest-state collection.
RecordStatFlightKey(stats, collection_name, num, operations_list) ==
    PutStat(stats, OptimizedKey(FLIGHT_COLLECTION, num), Len(operations_list))

\* Mutant: the key does not carry the batch number.
RecordStatNoBatch(stats, collection_name, num, operations_list) ==
    PutStat(stats, OriginalKey(collection_name), Len(operations_list))

\* write_stats[f"{collection_name}_batch_{batch_num}"] = {...}, lines 145-149
RecordStat(stats, collection_name, num, operations_list) ==
    PutStat(stats, OptimizedKey(collection_name, num), Len(operations_list))

\* The sequential writes of one batch (use_multithreading false): cursor
\* walks flight, position, surface.
OptSeqSkip ==
    /\ opc = "sequential"
    /\ cursor <= Len(CollectionOrder)
    /\ buckets[CollectionOrder[cursor]] = << >>
    /\ cursor' = cursor + 1
    /\ UNCHANGED <<opc, total_batches, batch_num, buckets, threads, thr, write_stats, db,
                   naiveVars, mainVars, argVars, histVars>>

OptSeqWriteOk ==
    /\ opc = "sequential"
    /\ cursor <= Len(CollectionOrder)
    /\ LET c == CollectionOrder[cursor]
           ops == buckets[c]
       IN  /\ ops # << >>
           /\ db' = [db EXCEPT ![c] = StoreWrite(@, ops, c = FLIGHT_COLLECTION)]
           /\ write_stats' = RecordStat(write_stats, c, batch_num, ops)
           /\ flush_log' = LogFlush(flush_log, OptimizedKey(c, batch_num))
    /\ cursor' = cursor + 1
    /\ UNCHANGED <<opc, total_batches, batch_num, buckets, threads, thr, naiveVars, mainVars,
                   argVars, failed, chunks, runs>>

\* Mutant: perform_write does not catch the exception of the store call.
OptSeqWriteFailUncaught ==
    /\ opc = "sequential"
    /\ cursor <= Len(CollectionOrder)
    /\ LET c == CollectionOrder[cursor]
           ops == buckets[c]
       IN  /\ ops # << >>
           /\ \E S \in SUBSET (1..Len(ops)) :
                 db' = [db EXCEPT ![c] = StorePartial(@, ops, c = FLIGHT_COLLECTION, S)]
           /\ flush_log' = LogFlush(flush_log, OptimizedKey(c, batch_num))
           /\ failed' = failed \cup {OptimizedKey(c, batch_num)}
    /\ opc' = "raised"
    /\ UNCHANGED <<cursor, total_batches, batch_num, buckets, threads, thr, write_stats,
                   naiveVars, mainVars, argVars, chunks, runs>>

\* the store call raises: perform_write prints and returns
OptSeqWriteFail ==
    /\ opc = "sequential"
    /\ cursor <= Len(CollectionOrder)
    /\ LET c == CollectionOrder[cursor]
           ops == buckets[c]
       IN  /\ ops # << >>
           /\ \E S \in SUBSET (1..Len(ops)) :
                 db' = [db EXCEPT ![c] = StorePartial(@, ops, c = FLIGHT_COLLECTION, S)]
           /\ flush_log' = LogFlush(flush_log, OptimizedKey(c, batch_num))
           /\ failed' = failed \cup {OptimizedKey(c, batch_num)}
    /\ cursor' = cursor + 1
    /\ UNCHANGED <<opc, total_batches, batch_num, buckets, threads, thr, write_stats, naiveVars,
                   mainVars, argVars, chunks, runs>>

OptSeqDone ==
    /\ opc = "sequential"
    /\ cursor > Len(CollectionOrder)
    /\ batch_num' = batch_num + 1
    /\ opc' = "loop"
    /\ UNCHANGED <<total_batches, buckets, threads, thr, cursor, write_stats, db, naiveVars,
                   mainVars, argVars, histVars>>

\* "for t in threads: t.start()"
OptStart ==
    /\ opc = "start"
    /\ cursor <= Len(threads)
    /\ thr' = [thr EXCEPT ![threads[cursor]].st = "started"]
    /\ cursor' = cursor + 1
    /\ UNCHANGED <<opc, total_batches, batch_num, buckets, threads, write_stats, db, naiveVars,
                   mainVars, argVars, histVars>>

OptStartDone ==
    /\ opc = "start"
    /\ cursor > Len(threads)
    /\ opc' = "join"
    /\ cursor' = 1
    /\ UNCHANGED <<total_batches, batch_num, buckets, threads, thr, write_stats, db, naiveVars,
                   mainVars, argVars, histVars>>

\* Mutant: join() returns without waiting for the thread.
JoinedNoWait(t) == TRUE

\* t.join() returns once thread t has finished
Joined(t) == thr[t].st = "done"

\* "for t in threads: t.join()"
OptJoin ==
    /\ opc = "join"
    /\ cursor <= Len(threads)
    /\ Joined(threads[cursor])
    /\ cursor' = cursor + 1
    /\ UNCHANGED <<opc, total_batches, batch_num, buckets, threads, thr, write_stats, db,
                   naiveVars, mainVars, argVars, histVars>>

OptJoinDone ==
    /\ opc = "join"
    /\ cursor > Len(threads)
    /\ batch_num' = batch_num + 1
    /\ opc' = "loop"
    /\ UNCHANGED <<total_batches, buckets, threads, thr, cursor, write_stats, db, naiveVars,
                   mainVars, argVars, histVars>>

\* A started thread runs perform_write: the store call succeeds ...
ThreadFlushOk(t) ==
    /\ thr[t].st = "started"
    /\ LET c == thr[t].collection_name
       IN  /\ db' = [db EXCEPT ![c] = StoreWrite(@, thr[t].operations_list, thr[t].is_update)]
           /\ flush_log' = LogFlush(flush_log, OptimizedKey(c, thr[t].created_in))
    /\ thr' = [thr EXCEPT ![t].st = "flushed"]
    /\ UNCHANGED <<opc, total_batches, batch_num, buckets, threads, cursor, write_stats,
                   naiveVars, mainVars, argVars, failed, chunks, runs>>

\* Mutant: the statistics are recorded in a "finally": also after a failure.
ThreadFlushFailRecords(t) ==
    /\ thr[t].st = "started"
    /\ LET c == thr[t].collection_name
           ops == thr[t].operations_list
       IN  /\ \E S \in SUBSET (1..Len(ops)) :
                 db' = [db EXCEPT ![c] = StorePartial(@, ops, thr[t].is_update, S)]
           /\ flush_log' = LogFlush(flush_log, OptimizedKey(c, thr[t].created_in))
           /\ failed' = failed \cup {OptimizedKey(c, thr[t].created_in)}
    /\ thr' = [thr EXCEPT ![t].st = "flushed"]
    /\ UNCHANGED <<opc, total_batches, batch_num, buckets, threads, cursor, write_stats,
                   naiveVars, mainVars, argVars, chunks, runs>>

\* ... or raises, which perform_write prints; the thread ends
ThreadFlushFail(t) ==
    /\ thr[t].st = "started"
    /\ LET c == thr[t].collection_name
           ops == thr[t].operations_list
       IN  /\ \E S \in SUBSET (1..Len(ops)) :
                 db' = [db EXCEPT ![c] = StorePartial(@, ops, thr[t].is_update, S)]
           /\ flush_log' = LogFlush(flush_log, OptimizedKey(c, thr[t].created_in))
           /\ failed' = failed \cup {OptimizedKey(c, thr[t].created_in)}
    /\ thr' = [thr EXCEPT ![t].st = "done"]
    /\ UNCHANGED <<opc, total_batches, batch_num, buckets, threads, cursor, write_stats,
                   naiveVars, mainVars, argVars, chunks, runs>>

\* After the store call the thread records its statistics under the key of
\* the batch_num the enclosing loop holds at that moment, and ends.
ThreadRecord(t) ==
    /\ thr[t].st = "flushed"
    /\ write_stats' = RecordStat(write_stats, thr[t].collection_name, batch_num,
                                 thr[t].operations_list)
    /\ thr' = [thr EXCEPT ![t].st = "done"]
    /\ UNCHANGED <<opc, total_batches, batch_num, buckets, threads, cursor, db, naiveVars,
                   mainVars, argVars, histVars>>

\* ------------------------------------------------------- stats aggregator
\* k.startswith(prefix), on token sequences
StartsWith(k, prefix) == Len(prefix) <= Len(k) /\ SubSeq(k, 1, Len(prefix)) = prefix

RECURSIVE SumOver(_, _)
SumOver(f, S) ==
    IF S = {} THEN 0
    ELSE LET k == CHOOSE x \in S : TRUE IN f[k] + SumOver(f, S \ {k})

\* The rows compare_results hands to tabulate: one per element of the set of
\* the keys of both mappings.
compare_results(orig, opt) ==
    LET collections == DOMAIN orig \cup DOMAIN opt
    IN  {[collection |-> c,
          orig_ops |-> IF c \in DOMAIN orig THEN orig[c] ELSE 0,
          opt_ops |-> SumOver(opt, {k \in DOMAIN opt : StartsWith(k, c)})] : c \in collections}

\* ------------------------------------------------------------ main program
BatchSizes == (0 - 1)..MaxBatchSize

RunRecord(strategy, result) == [strategy |-> strategy, result |-> result, failures |-> failed # {}]

\* lines 226-238: the collections are dropped, the data generated and the
\* naive writer called
MainInit ==
    /\ pc = "INIT"
    /\ db' = DropAll(db)
    /\ data' \in generate_synthetic_data
    /\ pc' = "NAIVE_RUN"
    /\ NaiveEnter
    /\ UNCHANGED <<batch_size, use_multithreading, optVars, original_stats, optimized_stats,
                   rows, runs>>

\* line 238: the naive writer returned; original_stats is assigned
MainNaiveReturned ==
    /\ pc = "NAIVE_RUN"
    /\ npc = "returned"
    /\ original_stats' = Assigned(n_stats)
    /\ runs' = Append(runs, RunRecord("naive", "returned"))
    /\ npc' = "idle"
    /\ pc' = "RESET"
    /\ UNCHANGED <<operations, nidx, n_stats, db, optVars, optimized_stats, rows, argVars,
                   flush_log, failed, chunks>>

\* Mutant: the main program catches the exception of the naive writer and
\* carries on with empty statistics.
MainNaiveRaisedCaught ==
    /\ pc = "NAIVE_RUN"
    /\ npc = "raised"
    /\ runs' = Append(runs, RunRecord("naive", "raised"))
    /\ original_stats' = Assigned(EmptyStats)
    /\ npc' = "idle"
    /\ pc' = "RESET"
    /\ UNCHANGED <<operations, nidx, n_stats, db, optVars, optimized_stats, rows, argVars,
                   flush_log, failed, chunks>>

\* an exception leaves the naive writer: nothing catches it, the program ends
MainNaiveRaised ==
    /\ pc = "NAIVE_RUN"
    /\ npc = "raised"
    /\ runs' = Append(runs, RunRecord("naive", "raised"))
    /\ npc' = "idle"
    /\ pc' = "ABORTED"
    /\ UNCHANGED <<operations, nidx, n_stats, db, optVars, original_stats, optimized_stats,
                   rows, argVars, flush_log, failed, chunks>>

\* lines 244-251: the collections are dropped and the batched writer called
MainReset ==
    /\ pc = "RESET"
    /\ db' = DropAll(db)
    /\ pc' = "BATCHED_RUN"
    /\ OptEnter
    /\ UNCHANGED <<naiveVars, original_stats, optimized_stats, rows, argVars, runs>>

\* line 251: the batched writer returned; optimized_stats is assigned
MainBatchedReturned ==
    /\ pc = "BATCHED_RUN"
    /\ opc = "returned"
    /\ optimized_stats' = Assigned(write_stats)
    /\ runs' = Append(runs, RunRecord("optimized", "returned"))
    /\ opc' = "idle"
    /\ pc' = "REPORT"
    /\ UNCHANGED <<total_batches, batch_num, buckets, threads, thr, cursor, write_stats, db,
                   naiveVars, original_stats, rows, argVars, flush_log, failed, chunks>>

\* an exception leaves the batched writer: nothing catches it, the program ends
MainBatchedRaised ==
    /\ pc = "BATCHED_RUN"
    /\ opc = "raised"
    /\ runs' = Append(runs, RunRecord("optimized", "raised"))
    /\ opc' = "idle"
    /\ pc' = "ABORTED"
    /\ UNCHANGED <<total_batches, batch_num, buckets, threads, thr, cursor, write_stats, db,
                   naiveVars, original_stats, optimized_stats, rows, argVars, flush_log,
                   failed, chunks>>

\* line 257
MainReport ==
    /\ pc = "REPORT"
    /\ rows' = compare_results(original_stats.stats, optimized_stats.stats)
    /\ pc' = "DONE"
    /\ UNCHANGED <<original_stats, optimized_stats, db, naiveVars, optVars, argVars, histVars>>

InitialDbs == {EmptyDb, [c \in CollectionNames |-> [EmptyCollection EXCEPT ![1] = 1]]}

Idle ==
    /\ npc = "idle"
    /\ operations = EmptyBuckets
    /\ nidx = 1
    /\ n_stats = EmptyStats
    /\ opc = "idle"
    /\ total_batches = 0
    /\ batch_num = 0
    /\ buckets = EmptyBuckets
    /\ threads = << >>
    /\ thr = << >>
    /\ cursor = 1
    /\ write_stats = EmptyStats
    /\ original_stats = Unset
    /\ optimized_stats = Unset
    /\ rows = {}
    /\ flush_log = EmptyStats
    /\ failed = {}
    /\ chunks = << >>

\* The program as run from the command line.  The store may hold documents of
\* an earlier run; BATCH_SIZE and USE_MULTITHREADING are configuration.
Init ==
    /\ pc = "INIT"
    /\ data = << >>
    /\ batch_size \in BatchSizes
    /\ use_multithreading \in BOOLEAN
    /\ db \in InitialDbs
    /\ runs = << >>
    /\ Idle

Next ==
    \/ MainInit
    \/ MainNaiveReturned
    \/ MainNaiveRaised
    \/ MainReset
    \/ MainBatchedReturned
    \/ MainBatchedRaised
    \/ MainReport
    \/ NaiveScan
    \/ NaiveSkipEmpty
    \/ NaiveFlushOk
    \/ NaiveFlushFail
    \/ NaiveReturn
    \/ OptBegin
    \/ OptBeginRaise
    \/ OptBatch
    \/ OptReturn
    \/ OptSeqSkip
    \/ OptSeqWriteOk
    \/ OptSeqWriteFail
    \/ OptSeqDone
    \/ OptStart
    \/ OptStartDone
    \/ OptJoin
    \/ OptJoinDone
    \/ \E t \in 1..Len(thr) : ThreadFlushOk(t)
    \/ \E t \in 1..Len(thr) : ThreadFlushFail(t)
    \/ \E t \in 1..Len(thr) : ThreadRecord(t)

Spec == Init /\ [][Next]_vars

\* ------------------------------------------------- the writers as a library
\* One of the two writers called directly, on any record set and with any
\* arguments, against a store nobody resets: the store holds what earlier
\* complete runs over the same record set left in it.
Routable(d) == \A i \in 1..Len(d) : d[i] # NoField

\* The store after k complete runs without a failure over record set d: one
\* document per flight id in the latest-state collection, k documents per
\* record in the append-only collection its posmsgtype selects.
StoreAfterRuns(d, k) ==
    [c \in CollectionNames |->
        [i \in IdSpace |->
            IF i > Len(d) \/ k = 0 THEN 0
            ELSE IF c = FLIGHT_COLLECTION THEN 1
            ELSE IF (c = POSITION_COLLECTION) = (d[i] = "position") THEN k
            ELSE 0]]

EarlierRun == [strategy |-> "earlier", result |-> "returned", failures |-> FALSE]

InitCalls ==
    /\ pc = "CALLER"
    /\ data \in SeqsUpTo(AnyTypes, MaxCallRecords)
    /\ batch_size = 1
    /\ use_multithreading = FALSE
    /\ Idle
    /\ \E k \in 0..MaxEarlierRuns :
          /\ k > 0 => Routable(data)
          /\ db = StoreAfterRuns(data, k)
          /\ runs = [r \in 1..k |-> EarlierRun]

NotYetCalled == \A r \in 1..Len(runs) : runs[r] = EarlierRun

CallNaive ==
    /\ pc = "CALLER"
    /\ npc = "idle"
    /\ opc = "idle"
    /\ NotYetCalled
    /\ NaiveEnter
    /\ UNCHANGED <<db, optVars, mainVars, argVars, runs>>

CallOptimized ==
    /\ pc = "CALLER"
    /\ npc = "idle"
    /\ opc = "idle"
    /\ NotYetCalled
    /\ batch_size' \in BatchSizes
    /\ use_multithreading' \in BOOLEAN
    /\ OptEnter
    /\ UNCHANGED <<db, naiveVars, mainVars, data, runs>>

CallerNaiveDone ==
    /\ pc = "CALLER"
    /\ npc \in {"returned", "raised"}
    /\ runs' = Append(runs, RunRecord("naive", npc))
    /\ npc' = "idle"
    /\ UNCHANGED <<operations, nidx, n_stats, db, optVars, mainVars, argVars, flush_log,
                   failed, chunks>>

CallerOptimizedDone ==
    /\ pc = "CALLER"
    /\ opc \in {"returned", "raised"}
    /\ runs' = Append(runs, RunRecord("optimized", opc))
    /\ opc' = "idle"
    /\ UNCHANGED <<total_batches, batch_num, buckets, threads, thr, cursor, write_stats, db,
                   naiveVars, mainVars, argVars, flush_log, failed, chunks>>

NextCalls ==
    \/ CallNaive
    \/ CallOptimized
    \/ CallerNaiveDone
    \/ CallerOptimizedDone
    \/ NaiveScan
    \/ NaiveScanRaise
    \/ NaiveSkipEmpty
    \/ NaiveFlushOk
    \/ NaiveFlushFail
    \/ NaiveReturn
    \/ OptBegin
    \/ OptBeginRaise
    \/ OptBatch
    \/ OptBatchRaise
    \/ OptReturn
    \/ OptSeqSkip
    \/ OptSeqWriteOk
    \/ OptSeqWriteFail
    \/ OptSeqDone
    \/ OptStart
    \/ OptStartDone
    \/ OptJoin
    \/ OptJoinDone
    \/ \E t \in 1..Len(thr) : ThreadFlushOk(t)
    \/ \E t \in 1..Len(thr) : ThreadFlushFail(t)
    \/ \E t \in 1..Len(thr) : ThreadRecord(t)

SpecCalls == InitCalls /\ [][NextCalls]_vars

\* ------------------------------------------- the aggregator as a function
\* compare_results called directly on any two statistics mappings: the naive
\* one keyed by collection name, the batched one by collection name and
\* batch, either of them lacking any of its keys.
OriginalKeys == {OriginalKey(c) : c \in CollectionNames}
OptimizedKeys == {OptimizedKey(c, k) : c \in CollectionNames, k \in 0..(MaxCallRecords - 1)}

StatMappings(keys) == UNION {[S -> 1..MaxCallRecords] : S \in SUBSET keys}

InitCompare ==
    /\ pc = "COMPARE_CALLER"
    /\ data = << >>
    /\ batch_size = 1
    /\ use_multithreading = FALSE
    /\ db = EmptyDb
    /\ runs = << >>
    /\ Idle

CompareCall ==
    /\ pc = "COMPARE_CALLER"
    /\ \E orig \in StatMappings(OriginalKeys), opt \in StatMappings(OptimizedKeys) :
          /\ original_stats' = Assigned(orig)
          /\ optimized_stats' = Assigned(opt)
          /\ rows' = compare_results(orig, opt)
    /\ pc' = "COMPARED"
    /\ UNCHANGED <<db, naiveVars, optVars, argVars, histVars>>

NextCompare == CompareCall

SpecCompare == InitCompare /\ [][NextCompare]_vars

\* ================================================================ claims
InFlight(t) == thr[t].st \in {"started", "flushed"}
InFlightThreads == {t \in 1..Len(thr) : InFlight(t)}
ThreadsOfBatch(k) == {t \in 1..Len(thr) : thr[t].created_in = k}

\* C1: with use_multithreading, batches are processed in index order behind a
\* join barrier: no write task of a batch has started unless every task of
\* every earlier batch has finished, so at most 3 write tasks are in flight
\* and all of them belong to the batch the loop is in.
C1_JoinBarrier ==
    use_multithreading =>
        /\ Cardinality(InFlightThreads) <= 3
        /\ \A t \in InFlightThreads : thr[t].created_in = batch_num
        /\ \A t, u \in 1..Len(thr) :
              /\ t < u => thr[t].created_in <= thr[u].created_in
              /\ (thr[t].created_in < thr[u].created_in /\ thr[u].st # "created")
                    => thr[t].st = "done"

\* C1 witness: the loop is in its second batch with two tasks in flight,
\* after the three tasks of the first batch have all finished.
C1_Witness ==
    /\ use_multithreading
    /\ batch_num = 1
    /\ Cardinality(InFlightThreads) = 2
    /\ Cardinality(ThreadsOfBatch(0)) = 3
    /\ \A t \in ThreadsOfBatch(0) : thr[t].st = "done"

\* The record ids of batch k under a positive batch size, stated directly.
IdsOfBatch(k) == {i \in 1..Len(data) : k * batch_size < i /\ i <= (k + 1) * batch_size}

RoutedTo(i, c) ==
    \/ c = FLIGHT_COLLECTION
    \/ c = POSITION_COLLECTION /\ data[i] = "position"
    \/ c = SURFACE_COLLECTION /\ data[i] # "position"

\* The (collection, batch) pairs whose list is non-empty.
NonEmptyBuckets ==
    {<<c, k>> \in CollectionNames \X (0..Len(data)) : \E i \in IdsOfBatch(k) : RoutedTo(i, c)}

ExpectedFlushLog ==
    [key \in {OptimizedKey(b[1], b[2]) : b \in NonEmptyBuckets} |-> 1]

\* C2: in the batched writer a failing store call is not fatal: the writer
\* never raises because of it and never gets stuck, and when it returns the
\* flush of every non-empty (collection, batch) list has been attempted
\* exactly once, whatever failed and in whatever order the tasks ran.
C2_FailureNotFatal ==
    /\ opc = "raised" => batch_size = 0
    /\ opc \in {"call", "loop", "sequential", "start", "join"} => ENABLED Next
    /\ (opc = "returned" /\ batch_size > 0) => flush_log = ExpectedFlushLog

\* C2 witness: a multithreaded run has returned although the flush of the
\* first batch's latest-state list failed; the second batch was flushed.
C2_Witness ==
    /\ opc = "returned"
    /\ use_multithreading
    /\ OptimizedKey(FLIGHT_COLLECTION, 0) \in failed
    /\ OptimizedKey(POSITION_COLLECTION, 0) \in DOMAIN write_stats
    /\ OptimizedKey(FLIGHT_COLLECTION, 1) \in DOMAIN flush_log

\* C3: in the naive writer a failing flush call is raised at once: no flush
\* is attempted for a collection later in the flush order, no statistics are
\* returned to the caller, and what earlier flushes wrote stays in the store.
C3_NaiveFailFast ==
    /\ (pc = "NAIVE_RUN" /\ failed # {}) =>
          /\ npc = "raised"
          /\ failed = {OriginalKey(CollectionOrder[nidx])}
          /\ flush_log[OriginalKey(CollectionOrder[nidx])] = 1
          /\ \A j \in 1..Len(CollectionOrder) :
                LET c == CollectionOrder[j]
                IN  /\ j > nidx => (OriginalKey(c) \notin DOMAIN flush_log /\ db[c] = EmptyCollection)
                    /\ (j < nidx /\ operations[c] # << >>) =>
                          (flush_log[OriginalKey(c)] = 1 /\ db[c] = bulk_write(EmptyCollection, operations[c]))
          /\ original_stats = Unset
    /\ (pc = "ABORTED" /\ runs[Len(runs)].strategy = "naive") =>
          (original_stats = Unset /\ optimized_stats = Unset /\ rows = {})

\* C3 witness: the flush of the position collection failed after the
\* latest-state collection had been written; the program has aborted.
C3_Witness ==
    /\ pc = "ABORTED"
    /\ failed = {OriginalKey(POSITION_COLLECTION)}
    /\ CollectionSize(db[FLIGHT_COLLECTION]) = Len(data)
    /\ Len(data) >= 2
    /\ OriginalKey(SURFACE_COLLECTION) \notin DOMAIN flush_log
    /\ operations[SURFACE_COLLECTION] # << >>

MainTransitions ==
    {<<"INIT", "NAIVE_RUN">>, <<"NAIVE_RUN", "RESET">>, <<"RESET", "BATCHED_RUN">>,
     <<"BATCHED_RUN", "REPORT">>, <<"REPORT", "DONE">>,
     <<"NAIVE_RUN", "ABORTED">>, <<"BATCHED_RUN", "ABORTED">>}

\* C4 as stated: any error during either run, a failed flush call included,
\* keeps the main program from reaching REPORT.
C4_AnyFlushFailureFatal ==
    pc \in {"REPORT", "DONE"} => \A r \in 1..Len(runs) : ~runs[r].failures

\* C4 as amended: the main program moves INIT, NAIVE_RUN, RESET, BATCHED_RUN,
\* REPORT, DONE in that order; it leaves a run for ABORTED exactly when an
\* exception left the writer, which a failed flush call causes in the naive
\* run but never in the batched run; ABORTED and DONE are terminal and the
\* comparison is produced only by the step from REPORT to DONE.
C4_MainStates ==
    [][ /\ pc' # pc =>
             /\ <<pc, pc'>> \in MainTransitions
             /\ pc' = "ABORTED" <=> (npc = "raised" \/ opc = "raised")
             /\ (pc = "NAIVE_RUN" /\ failed # {}) => pc' = "ABORTED"
             /\ (pc = "BATCHED_RUN" /\ pc' = "ABORTED") => failed = {}
        /\ (pc = "BATCHED_RUN" /\ failed' # failed) => (opc' # "raised" /\ pc' = pc)
        /\ rows' # rows => (pc = "REPORT" /\ pc' = "DONE")
      ]_vars

\* C4 witness: the comparison has been produced although a flush call of the
\* batched run failed.
C4_Witness ==
    /\ pc = "DONE"
    /\ Len(runs) = 2
    /\ runs[2].failures
    /\ rows # {}

\* C5: whenever a writer is called from the main program, all three
\* collections are empty, whatever the store held before and whatever the
\* naive run wrote.
C5_RunsStartEmpty ==
    /\ (pc = "NAIVE_RUN" /\ npc = "scan") => db = EmptyDb
    /\ (pc = "BATCHED_RUN" /\ opc = "call") => db = EmptyDb

\* C5 witness: the batched writer is being called after a naive run that
\* wrote to all three collections.
C5_Witness ==
    /\ pc = "BATCHED_RUN"
    /\ opc = "call"
    /\ original_stats.set
    /\ DOMAIN original_stats.stats = {OriginalKey(c) : c \in CollectionNames}

CeilDiv(n, c) == CHOOSE q \in 0..n : q * c >= n /\ \A r \in 0..n : r * c >= n => q <= r

RECURSIVE Concat(_)
Concat(ss) == IF ss = << >> THEN << >> ELSE Head(ss) \o Concat(Tail(ss))

\* C6: for a positive batch size C the batched writer processes exactly
\* ceil(N/C) batches, which laid end to end are the records 1..N in order
\* (contiguous, disjoint, every record once); every batch but the last has C
\* records and the last has N mod C, or C when C divides N.
C6_Chunking ==
    (opc = "returned" /\ batch_size > 0) =>
        LET n == Len(data)
        IN  /\ Len(chunks) = CeilDiv(n, batch_size)
            /\ Concat(chunks) = [i \in 1..n |-> i]
            /\ \A k \in 1..Len(chunks) :
                  Len(chunks[k]) =
                      IF k < Len(chunks) \/ n % batch_size = 0 THEN batch_size
                      ELSE n % batch_size

\* C6 witness: three records in batches of two: batches of sizes 2 and 1.
C6_Witness ==
    /\ opc = "returned"
    /\ batch_size = 2
    /\ chunks = << <<1, 2>>, <<3>> >>

StatOf(stats, key) == IF key \in DOMAIN stats THEN stats[key] ELSE 0

\* C7: when both strategies have run over the same records, the batch size is
\* positive and no flush failed, then for each collection the operation
\* counts the batched run recorded, summed over the batches, equal the count
\* the naive run recorded, and the comparison shows the two equal.
C7_Conservation ==
    (pc = "DONE" /\ batch_size > 0 /\ \A r \in 1..Len(runs) : ~runs[r].failures) =>
        \A c \in CollectionNames :
            /\ SumOver(optimized_stats.stats,
                       {k \in DOMAIN optimized_stats.stats : k[1] = c})
                  = StatOf(original_stats.stats, OriginalKey(c))
            /\ \A r \in rows : r.collection = OriginalKey(c) => r.orig_ops = r.opt_ops

\* C7 witness: three records written in two batches by concurrent tasks; the
\* comparison shows 3 operations on the latest-state collection on both sides.
C7_Witness ==
    /\ pc = "DONE"
    /\ use_multithreading
    /\ batch_size = 2
    /\ \A r \in 1..Len(runs) : ~runs[r].failures
    /\ [collection |-> OriginalKey(FLIGHT_COLLECTION), orig_ops |-> 3, opt_ops |-> 3] \in rows
    /\ Cardinality(DOMAIN optimized_stats.stats) = 5

\* The collection names that occur in either mapping.
NamesIn(orig, opt) ==
    {c \in CollectionNames : OriginalKey(c) \in DOMAIN orig \/ \E k \in DOMAIN opt : k[1] = c}

\* C8: the comparison has exactly one row per collection name occurring in
\* either mapping, at most three, and no row for a batch-scoped key.
C8_OneRowPerDestination ==
    pc = "DONE" =>
        /\ {r.collection : r \in rows}
              = {OriginalKey(c) : c \in NamesIn(original_stats.stats, optimized_stats.stats)}
        /\ Cardinality(rows) <= 3

IdsIn(ops) == {ops[j].id : j \in 1..Len(ops)}

\* C9: once the naive writer's scan is complete, the latest-state list holds
\* exactly one upsert per record, in order and keyed by the record's id, and
\* every record has exactly one insert, in the position list when its
\* posmsgtype is "position" and in the surface list otherwise: the two insert
\* lists are disjoint and their lengths sum to N.
C9_NaivePartition ==
    npc \in {"flush", "returned"} =>
        LET n == Len(data)
            upd == operations[FLIGHT_COLLECTION]
            pos == operations[POSITION_COLLECTION]
            sur == operations[SURFACE_COLLECTION]
        IN  /\ upd = [i \in 1..n |-> [op |-> "UpdateOne", id |-> i]]
            /\ \A j \in 1..Len(pos) : pos[j].op = "InsertOne"
            /\ \A j \in 1..Len(sur) : sur[j].op = "InsertOne"
            /\ IdsIn(pos) = {i \in 1..n : data[i] = "position"}
            /\ IdsIn(sur) = {i \in 1..n : data[i] # "position"}
            /\ IdsIn(pos) \cap IdsIn(sur) = {}
            /\ Len(pos) + Len(sur) = n

\* C9 witness: two records, one of each kind, have been partitioned.
C9_Witness ==
    /\ npc = "flush"
    /\ Len(data) = 2
    /\ Len(operations[FLIGHT_COLLECTION]) = 2
    /\ Len(operations[POSITION_COLLECTION]) = 1
    /\ Len(operations[SURFACE_COLLECTION]) = 1

LastRun == runs[Len(runs)]

\* C10: the latest-state collection never holds two documents for one flight
\* id, and after a run of either strategy that returned without a failed
\* flush, on a store that k-1 earlier complete runs over the same N records
\* had written to and nobody reset, the latest-state collection holds exactly
\* N documents, one per id, while each append-only collection holds k
\* documents per record routed to it (it grew by its list on every run).
C10_UpsertIdempotent ==
    /\ \A i \in IdSpace : db[FLIGHT_COLLECTION][i] <= 1
    /\ (/\ Len(runs) >= 1
        /\ LastRun # EarlierRun
        /\ LastRun.result = "returned"
        /\ ~LastRun.failures
        /\ LastRun.strategy = "optimized" => batch_size > 0) =>
            /\ db = StoreAfterRuns(data, Len(runs))
            /\ CollectionSize(db[FLIGHT_COLLECTION]) = Len(data)
            /\ CollectionSize(db[POSITION_COLLECTION]) + CollectionSize(db[SURFACE_COLLECTION])
                  = Len(runs) * Len(data)

\* C10 witness: a third run, batched and multithreaded, over two records has
\* returned: two documents in the latest-state collection, six appended.
C10_Witness ==
    /\ Len(runs) = 3
    /\ LastRun.strategy = "optimized"
    /\ LastRun.result = "returned"
    /\ ~LastRun.failures
    /\ use_multithreading
    /\ Len(data) = 2
    /\ CollectionSize(db[FLIGHT_COLLECTION]) = 2
    /\ CollectionSize(db[POSITION_COLLECTION]) = 3
    /\ CollectionSize(db[SURFACE_COLLECTION]) = 3

OwnRunDone == Len(runs) >= 1 /\ LastRun # EarlierRun

\* C11: a batch size of 0 or below is a configuration error that fails fast:
\* the batched writer ends by raising and no flush call is attempted.
C11_NonPositiveFailsFast ==
    batch_size <= 0 =>
        /\ opc \in {"idle", "call", "raised"}
        /\ (OwnRunDone /\ LastRun.strategy = "optimized") =>
              (LastRun.result = "raised" /\ flush_log = EmptyStats)

NonEmptyLists == {c \in CollectionNames : operations[c] # << >>}

\* C12 as stated: a naive run in which no flush fails issues exactly 3 flush
\* calls and returns exactly 3 entries, whatever the record set.
C12_AlwaysThreeFlushes ==
    npc = "returned" =>
        /\ DOMAIN flush_log = {OriginalKey(c) : c \in CollectionNames}
        /\ DOMAIN n_stats = {OriginalKey(c) : c \in CollectionNames}

\* C12 as amended: a naive run in which no flush fails issues exactly one
\* flush call per non-empty operation list and returns exactly one entry per
\* non-empty list, holding the list's length: 3 calls and 3 entries when the
\* record set has a "position" record and a record of another kind, 2 when all
\* records are of one kind, none for the empty record set.
C12_OneFlushPerNonEmptyList ==
    npc = "returned" =>
        /\ flush_log = [k \in {OriginalKey(c) : c \in NonEmptyLists} |-> 1]
        /\ n_stats = [k \in {OriginalKey(c) : c \in NonEmptyLists} |-> Len(operations[k[1]])]
        /\ Cardinality(DOMAIN n_stats) =
              IF Len(data) = 0 THEN 0
              ELSE IF \A i \in 1..Len(data) : data[i] = "position" THEN 2
              ELSE IF \A i \in 1..Len(data) : data[i] # "position" THEN 2
              ELSE 3

\* C12 witness: two "position" records: two flush calls, two entries, none
\* for the surface collection.
C12_Witness ==
    /\ npc = "returned"
    /\ data = <<"position", "position">>
    /\ DOMAIN n_stats = {OriginalKey(FLIGHT_COLLECTION), OriginalKey(POSITION_COLLECTION)}
    /\ n_stats[OriginalKey(POSITION_COLLECTION)] = 2

Others == {i \in 1..Len(data) : data[i] = "other"}

\* C13: a record whose posmsgtype is present but unrecognised is not
\* rejected by either writer: it gets its upsert in the latest-state list and
\* its insert in the surface list, never in the position list; no writer
\* raises on a record set whose records all carry posmsgtype unless a naive
\* flush fails or the batch size is 0; and a run that returns without a failed
\* flush has written the record to the latest-state and surface collections.
C13_UnrecognisedToSurface ==
    /\ npc \in {"flush", "returned"} =>
          \A i \in Others :
              /\ i \in IdsIn(operations[FLIGHT_COLLECTION])
              /\ i \in IdsIn(operations[SURFACE_COLLECTION])
              /\ i \notin IdsIn(operations[POSITION_COLLECTION])
    /\ opc \in {"sequential", "start", "join"} =>
          \A i \in Others :
              (\E j \in 1..Len(buckets[FLIGHT_COLLECTION]) : buckets[FLIGHT_COLLECTION][j].id = i) =>
                  /\ \E j \in 1..Len(buckets[SURFACE_COLLECTION]) : buckets[SURFACE_COLLECTION][j] = i
                  /\ \A j \in 1..Len(buckets[POSITION_COLLECTION]) : buckets[POSITION_COLLECTION][j] # i
    /\ (Routable(data) /\ npc = "raised") => failed # {}
    /\ (Routable(data) /\ opc = "raised") => batch_size = 0
    /\ (/\ OwnRunDone
        /\ LastRun.result = "returned"
        /\ ~LastRun.failures
        /\ LastRun.strategy = "optimized" => batch_size > 0) =>
            \A i \in Others :
                /\ db[FLIGHT_COLLECTION][i] = 1
                /\ db[SURFACE_COLLECTION][i] = Len(runs)
                /\ db[POSITION_COLLECTION][i] = 0

\* C13 witness: a multithreaded batched run over an unrecognised and a
\* position record has returned; the unrecognised record is in the surface
\* collection.
C13_Witness ==
    /\ OwnRunDone
    /\ LastRun.strategy = "optimized"
    /\ LastRun.result = "returned"
    /\ ~LastRun.failures
    /\ use_multithreading
    /\ data = <<"other", "position">>
    /\ db[SURFACE_COLLECTION][1] = 1
    /\ db[POSITION_COLLECTION][2] = 1

\* C14: over a batched run every key of write_stats is written at most once
\* and by one task: a task that records writes the key of its own collection
\* and batch, that key is new, no two tasks share a collection and batch, and
\* no entry, once made, is changed or lost.
C14_DisjointKeys ==
    [][ /\ \A t, u \in 1..Len(thr) :
              (t # u) => <<thr[t].collection_name, thr[t].created_in>>
                            # <<thr[u].collection_name, thr[u].created_in>>
        /\ \A t \in 1..Len(thr) :
              (t <= Len(thr') /\ thr[t].st = "flushed" /\ thr'[t].st = "done") =>
                  LET key == OptimizedKey(thr[t].collection_name, thr[t].created_in)
                  IN  /\ key \notin DOMAIN write_stats
                      /\ write_stats' = PutStat(write_stats, key, Len(thr[t].operations_list))
        /\ (opc = "sequential" /\ write_stats' # write_stats) =>
              LET key == OptimizedKey(CollectionOrder[cursor], batch_num)
              IN  /\ key \notin DOMAIN write_stats
                  /\ write_stats' = PutStat(write_stats, key, Len(buckets[CollectionOrder[cursor]]))
        /\ opc' # "call" =>
              \A k \in DOMAIN write_stats :
                  k \in DOMAIN write_stats' /\ write_stats'[k] = write_stats[k]
      ]_vars

\* C14 witness: two batches written by concurrent tasks: four entries, two
\* per batch, all present when the writer returns.
C14_Witness ==
    /\ opc = "returned"
    /\ use_multithreading
    /\ DOMAIN write_stats =
          {OptimizedKey(FLIGHT_COLLECTION, 0), OptimizedKey(POSITION_COLLECTION, 0),
           OptimizedKey(FLIGHT_COLLECTION, 1), OptimizedKey(SURFACE_COLLECTION, 1)}

BatchOfKey(key) == CHOOSE k \in 0..Len(data) : OptimizedKey(key[1], k) = key

ExpectedStats ==
    [key \in {OptimizedKey(b[1], b[2]) : b \in NonEmptyBuckets} \ failed |->
        Cardinality({i \in IdsOfBatch(BatchOfKey(key)) : RoutedTo(i, key[1])})]

\* C15: when the batched writer returns, write_stats has the key of
\* (collection, batch) exactly when that list was non-empty and its flush did
\* not fail, and the entry holds the length of the list; a failed flush and
\* an empty list leave no entry.
C15_StatsIffFlushed ==
    /\ (opc = "returned" /\ batch_size > 0) => write_stats = ExpectedStats
    /\ (opc = "returned" /\ batch_size < 0) => write_stats = EmptyStats

\* C15 witness: two records of one kind in one batch, written by concurrent
\* tasks; the flush of the position list failed: one entry, of 2 operations.
C15_Witness ==
    /\ opc = "returned"
    /\ use_multithreading
    /\ batch_size = 2
    /\ data = <<"position", "position">>
    /\ failed = {OptimizedKey(POSITION_COLLECTION, 0)}
    /\ write_stats = [k \in {OptimizedKey(FLIGHT_COLLECTION, 0)} |-> 2]

NaiveRunDone == OwnRunDone /\ LastRun.strategy = "naive"

\* C17: a record without "posmsgtype" makes the naive writer raise during its
\* scan, whatever its position in the data: the writer never reaches a flush,
\* no flush call is issued, no statistic is recorded and the collections hold
\* what they held when the writer was called.
C17_NaiveMissingFieldAborts ==
    ~Routable(data) =>
        /\ npc \in {"idle", "scan", "raised"}
        /\ (npc # "idle" \/ NaiveRunDone) =>
              /\ flush_log = EmptyStats
              /\ n_stats = EmptyStats
              /\ db = StoreAfterRuns(data, 0)
        /\ NaiveRunDone => LastRun.result = "raised"

\* C17 witness: the second of two records lacks the field; the naive writer
\* has raised.
C17_Witness ==
    /\ npc = "raised"
    /\ data = <<"position", NoField>>
    /\ flush_log = EmptyStats

BatchedRunDone == OwnRunDone /\ LastRun.strategy = "optimized"

HasMissing(k) == \E i \in IdsOfBatch(k) : data[i] = NoField

\* C18: with a positive batch size, a record without "posmsgtype" in batch k
\* makes the batched writer raise while it prepares batch k: the run never
\* returns statistics, every earlier batch was processed completely (each of
\* its non-empty lists flushed once, its tasks ended), and nothing of batch k
\* or of a later batch was handed to the store.
C18_BatchedMissingFieldAborts ==
    /\ (~Routable(data) /\ batch_size > 0) =>
          /\ opc # "returned"
          /\ BatchedRunDone => LastRun.result = "raised"
    /\ (opc = "raised" /\ batch_size > 0) =>
          /\ HasMissing(batch_num)
          /\ \A j \in 0..(batch_num - 1) : ~HasMissing(j)
          /\ Len(chunks) = batch_num
          /\ flush_log = [key \in {OptimizedKey(b[1], b[2]) :
                                     b \in {x \in NonEmptyBuckets : x[2] < batch_num}} |-> 1]
          /\ DOMAIN write_stats = DOMAIN flush_log \ failed
          /\ \A t \in 1..Len(thr) : thr[t].st = "done" /\ thr[t].created_in < batch_num

\* C18 witness: batches of one record, the second record lacks the field: the
\* first batch was written by its two tasks, then the writer raised.
C18_Witness ==
    /\ opc = "raised"
    /\ use_multithreading
    /\ batch_size = 1
    /\ data = <<"position", NoField>>
    /\ batch_num = 1
    /\ DOMAIN flush_log = {OptimizedKey(FLIGHT_COLLECTION, 0), OptimizedKey(POSITION_COLLECTION, 0)}

\* The lists of batch k as lines 112-132 build them.
ListsOfBatch(k) == OptimizedScan(data, DataBatch(Len(data), batch_size, k), 1, EmptyBuckets).buckets

\* What the writes of the batches give when they are made one after the
\* other in the order flight, position, surface, batch after batch, the
\* flushes of the keys in bad failing: p counts the (batch, collection) pairs
\* already passed.
RECURSIVE SequentialOutcome(_, _, _)
SequentialOutcome(bad, p, acc) ==
    IF p >= Len(CollectionOrder) * TotalBatches(Len(data), batch_size) THEN acc
    ELSE LET k == p \div Len(CollectionOrder)
             c == CollectionOrder[(p % Len(CollectionOrder)) + 1]
             ops == ListsOfBatch(k)[c]
             key == OptimizedKey(c, k)
         IN  IF ops = << >> THEN SequentialOutcome(bad, p + 1, acc)
             ELSE SequentialOutcome(bad, p + 1,
                     [stats |-> IF key \in bad THEN acc.stats
                                ELSE PutStat(acc.stats, key, Len(ops)),
                      log |-> LogFlush(acc.log, key)])

\* C19: use_multithreading changes the schedule only. Whatever its value and
\* whatever the interleaving of the tasks, the statistics returned and the
\* flush calls issued are those of the sequential order for the same data,
\* batch size and set of failing flushes, and every task carries the list the
\* sequential write of its collection and batch would be given.
C19_FlagChangesScheduleOnly ==
    /\ opc = "returned" =>
          LET seq == SequentialOutcome(failed, 0, [stats |-> EmptyStats, log |-> EmptyStats])
          IN  /\ write_stats = seq.stats
              /\ flush_log = seq.log
    /\ \A t \in 1..Len(thr) :
          /\ thr[t].operations_list = ListsOfBatch(thr[t].created_in)[thr[t].collection_name]
          /\ thr[t].is_update = (thr[t].collection_name = FLIGHT_COLLECTION)

\* C19 witness: a concurrent run over a position and a surface report in
\* batches of one has returned; the second flush of the latest-state
\* collection failed, the other three flushes are in the statistics.
C19_Witness ==
    /\ opc = "returned"
    /\ use_multithreading
    /\ batch_size = 1
    /\ data = <<"position", "surface">>
    /\ failed = {OptimizedKey(FLIGHT_COLLECTION, 1)}
    /\ DOMAIN write_stats =
          {OptimizedKey(FLIGHT_COLLECTION, 0), OptimizedKey(POSITION_COLLECTION, 0),
           OptimizedKey(SURFACE_COLLECTION, 1)}

====
